---- MODULE Spec2Model ----
(***************************************************************************)
(* Model of the chat front end in src/index.tsx: the App component's       *)
(* state (messages, input, isLoading, the chat session ref) and the async  *)
(* submit handler handleSendMessage, cut at its await points.  Strings are *)
(* sequences of one-character strings so that trim, toLowerCase,           *)
(* startsWith and substring are computed rather than assumed.              *)
(***************************************************************************)
EXTENDS Integers, Sequences, FiniteSets, TLC

(* ------------------------------ bounds -------------------------------- *)

\* longest remainder the user types after a command head
MaxRest == 2

\* most fragments one text stream delivers before it ends or fails
MaxFrags == 2

\* a submit event is dispatched only while the transcript is shorter than this
MaxMessages == 4

\* most submit events dispatched to handleSendMessage
MaxCalls == 2

(* ------------------------- program constants -------------------------- *)

imageCommand ==
    <<"g", "e", "n", "e", "r", "a", "t", "e", " ", "i", "m", "a", "g", "e", " ", "o",
      "f", " ">>

imageCommandAlt ==
    <<"g", "e", "n", "e", "r", "a", "t", "e", " ", "a", "n", " ", "i", "m", "a", "g",
      "e", " ", "o", "f", " ">>

GreetingText ==
    <<"H", "e", "l", "l", "o", "!", " ", "I", " ", "a", "m", " ", "K", "o", "h", "l",
      "i", " ", "A", "I", ",", " ", "y", "o", "u", "r", " ", "s", "m", "a", "r", "t",
      " ", "a", "n", "d", " ", "f", "r", "i", "e", "n", "d", "l", "y", " ", "a", "s",
      "s", "i", "s", "t", "a", "n", "t", " ", "f", "o", "r", " ", "e", "v", "e", "r",
      "y", "t", "h", "i", "n", "g", " ", "r", "e", "l", "a", "t", "e", "d", " ", "t",
      "o", " ", "i", "n", "d", "u", "s", "t", "r", "i", "a", "l", " ", "s", "p", "i",
      "n", "d", "l", "e", " ", "t", "e", "c", "h", "n", "o", "l", "o", "g", "y", ".",
      " ", "H", "o", "w", " ", "c", "a", "n", " ", "I", " ", "a", "s", "s", "i", "s",
      "t", " ", "y", "o", "u", " ", "t", "o", "d", "a", "y", "?">>

ErrorText ==
    <<"S", "o", "r", "r", "y", ",", " ", "I", " ", "e", "n", "c", "o", "u", "n", "t",
      "e", "r", "e", "d", " ", "a", "n", " ", "e", "r", "r", "o", "r", ".", " ", "P",
      "l", "e", "a", "s", "e", " ", "t", "r", "y", " ", "a", "g", "a", "i", "n", ".">>

DataUriPrefix ==
    <<"d", "a", "t", "a", ":", "i", "m", "a", "g", "e", "/", "p", "n", "g", ";", "b",
      "a", "s", "e", "6", "4", ",">>

PromptHead ==
    <<"A", " ", "h", "i", "g", "h", "-", "q", "u", "a", "l", "i", "t", "y", ",", " ",
      "d", "e", "t", "a", "i", "l", "e", "d", " ", "i", "m", "a", "g", "e", " ", "o",
      "f", " ">>

PromptTail ==
    <<" ", "i", "n", " ", "a", "n", " ", "i", "n", "d", "u", "s", "t", "r", "i", "a",
      "l", " ", "s", "e", "t", "t", "i", "n", "g", ".">>

ConfirmHead ==
    <<"H", "e", "r", "e", " ", "i", "s", " ", "t", "h", "e", " ", "i", "m", "a", "g",
      "e", " ", "o", "f", " ", "\"">>

ConfirmTail ==
    <<"\"", " ", "y", "o", "u", " ", "r", "e", "q", "u", "e", "s", "t", "e", "d", ".">>

\* chat.current before the mount effect has run
NULL == "null"

\* the handle returned by ai.current.chats.create
Session == "session"

(* ------------------------- environment inputs ------------------------- *)

\* a user typing the first command with capitals
TypedMixedCase ==
    <<"G", "e", "n", "e", "r", "a", "t", "e", " ", "I", "m", "a", "g", "e", " ", "O",
      "f", " ">>

\* the text remainders are cut from: "A A A ..."
RestPattern == [i \in 1..MaxRest |-> IF i % 2 = 1 THEN "A" ELSE " "]

\* the remainders typed after a head: every piece of RestPattern
Rests == {SubSeq(RestPattern, i, j) : i \in 1..(MaxRest + 1), j \in 0..MaxRest}

TypedHeads == {<<>>, TypedMixedCase, imageCommandAlt, <<" ">> \o imageCommand}

\* every value an onChange event can put into the draft
InputSet == {h \o r : h \in TypedHeads, r \in Rests}

\* text fragments a stream chunk can carry
Fragments == {<<"x">>, <<"y">>}

\* base64 payloads the image backend can return
ImageBytes == {<<"Q">>, <<"k", "0">>}

\* ways generateImages can fail: the promise rejects, or the response has
\* no generatedImages[0] and reading it throws
ImageFailures == {"rejected", "noImages"}

(* --------------------------- string helpers --------------------------- *)

Whitespace == {" "}

RECURSIVE trimStart(_)
trimStart(s) ==
    IF s # <<>> /\ Head(s) \in Whitespace THEN trimStart(Tail(s)) ELSE s

RECURSIVE trimEnd(_)
trimEnd(s) ==
    IF s # <<>> /\ s[Len(s)] \in Whitespace
    THEN trimEnd(SubSeq(s, 1, Len(s) - 1))
    ELSE s

trim(s) == trimEnd(trimStart(s))

toLowerChar(c) ==
    CASE c = "A" -> "a"
      [] c = "G" -> "g"
      [] c = "I" -> "i"
      [] c = "O" -> "o"
      [] OTHER -> c

toLowerCase(s) == [i \in 1..Len(s) |-> toLowerChar(s[i])]

startsWith(s, p) == Len(s) >= Len(p) /\ SubSeq(s, 1, Len(p)) = p

substring(s, n) == SubSeq(s, n + 1, Len(s))

RECURSIVE Concat(_)
Concat(fs) == IF fs = <<>> THEN <<>> ELSE Head(fs) \o Concat(Tail(fs))

IsPrefix(p, s) == startsWith(s, p)

Last(s) == s[Len(s)]

(* ------------------------------- state -------------------------------- *)

VARIABLES
    messages,       \* React state: the transcript
    input,          \* React state: the draft in the text field
    isLoading,      \* React state: the loading flag
    chat,           \* chat.current
    mounted,        \* whether the mount effect has run
    pc,             \* where the running handleSendMessage is suspended
    currentInput,   \* handler local
    prompt,         \* handler local
    fullResponse,   \* handler local
    imageRequests,  \* every prompt sent to models.generateImages
    textRequests,   \* every request sent to sendMessageStream
    delivered,      \* fragments the current stream has yielded so far
    response,       \* imageBytes of the last image response
    start,          \* sizes of the transcript and request logs at the last acceptance
    settled,        \* how the last accepted submission ended
    pending,        \* accepted invocations that have not reached finally
    open,           \* indices of placeholders whose stream loop is running
    calls           \* submit events dispatched so far

vars ==
    <<messages, input, isLoading, chat, mounted, pc, currentInput, prompt,
      fullResponse, imageRequests, textRequests, delivered, response, start,
      settled, pending, open, calls>>

locals == <<currentInput, prompt, fullResponse>>

backend == <<imageRequests, textRequests, delivered, response>>

(* ------------------------- pieces of the code ------------------------- *)

greeting == [text |-> GreetingText, sender |-> "ai", imageUrl |-> <<>>]

\* mutant: the user Message carries the trimmed draft
userMessage_Trimmed(inp) == [text |-> trim(inp), sender |-> "user", imageUrl |-> <<>>]

userMessage(inp) == [text |-> inp, sender |-> "user", imageUrl |-> <<>>]

imageUrl(base64ImageBytes) == DataUriPrefix \o base64ImageBytes

\* mutant: the image message is built without its imageUrl
aiMessage_NoImage(p, base64ImageBytes) ==
    [text |-> ConfirmHead \o p \o ConfirmTail, sender |-> "ai", imageUrl |-> <<>>]

aiMessage(p, base64ImageBytes) ==
    [text |-> ConfirmHead \o p \o ConfirmTail,
     sender |-> "ai",
     imageUrl |-> <<imageUrl(base64ImageBytes)>>]

placeholder == [text |-> <<>>, sender |-> "ai", imageUrl |-> <<>>]

errorMessage == [text |-> ErrorText, sender |-> "ai", imageUrl |-> <<>>]

\* mutant: the guard tests the raw draft, not the trimmed one
Accepts_NoTrim(inp, loading) == ~(inp = <<>> \/ loading)

\* the guard of line 48, negated: the invocation goes on
Accepts(inp, loading) == ~(trim(inp) = <<>> \/ loading)

\* mutant: the prompt is cut from the lower-cased copy
ExtractPrompt_Lowercased(cur) ==
    LET lowercasedInput == toLowerCase(cur)
    IN  IF startsWith(lowercasedInput, imageCommand)
        THEN substring(lowercasedInput, Len(imageCommand))
        ELSE IF startsWith(lowercasedInput, imageCommandAlt)
             THEN substring(lowercasedInput, Len(imageCommandAlt))
             ELSE <<>>

\* mutant: the draft is trimmed before it is matched and cut
ExtractPrompt_Trimmed(cur) ==
    LET lowercasedInput == toLowerCase(trim(cur))
    IN  IF startsWith(lowercasedInput, imageCommand)
        THEN substring(trim(cur), Len(imageCommand))
        ELSE IF startsWith(lowercasedInput, imageCommandAlt)
             THEN substring(trim(cur), Len(imageCommandAlt))
             ELSE <<>>

\* lines 57-66
ExtractPrompt(cur) ==
    LET lowercasedInput == toLowerCase(cur)
    IN  IF startsWith(lowercasedInput, imageCommand)
        THEN substring(cur, Len(imageCommand))
        ELSE IF startsWith(lowercasedInput, imageCommandAlt)
             THEN substring(cur, Len(imageCommandAlt))
             ELSE <<>>

\* the template of line 71
WrapPrompt(p) == PromptHead \o p \o PromptTail

\* mutant: the chunk is put in front of the text so far
AppendChunk_Reversed(full, chunk) == chunk \o full

\* mutant: the chunk replaces the text so far
AppendChunk_Replace(full, chunk) == chunk

\* line 93
AppendChunk(full, chunk) == full \o chunk

\* mutant: the updater returns the transcript as it was
SetLastText_Skip(msgs, t) == msgs

\* mutant: the updater fills every assistant Message that is still empty
SetLastText_AllEmpty(msgs, t) ==
    [i \in 1..Len(msgs) |->
        IF i = Len(msgs) \/ (msgs[i].sender = "ai" /\ msgs[i].text = <<>>)
        THEN [msgs[i] EXCEPT !.text = t]
        ELSE msgs[i]]

\* mutant: the updater writes the Message before the last one
SetLastText_Previous(msgs, t) == [msgs EXCEPT ![Len(msgs) - 1].text = t]

\* the updater of lines 94-98
SetLastText(msgs, t) == [msgs EXCEPT ![Len(msgs)].text = t]

\* mutant: the catch block appends nothing
CatchError_Swallow(msgs) == msgs

\* mutant: the turn is sent through a chat made for it
StreamTarget_Fresh(c) == "fresh"

\* the handle sendMessageStream is called on, line 87
StreamTarget(c) == c

\* mutant: the apology takes the place of the last Message
CatchError_Replace(msgs) == [msgs EXCEPT ![Len(msgs)] = errorMessage]

\* mutant: the apology is appended twice
CatchError_Twice(msgs) == Append(Append(msgs, errorMessage), errorMessage)

\* the catch block, lines 101-104
CatchError(msgs) == Append(msgs, errorMessage)

\* mutant: the flag is not raised on acceptance
LoadingOnAccept_Unset == FALSE

\* the value line 54 gives the flag
LoadingOnAccept == TRUE

\* mutant: finally leaves the flag raised
LoadingOnFinally_Stuck == TRUE

\* the value line 106 gives the flag
LoadingOnFinally == FALSE

\* the disabled attribute of the text field, line 148
InputDisabled(loading) == loading

StartOf(msgs) ==
    [msgs |-> Len(msgs), img |-> Len(imageRequests),
     txt |-> Len(textRequests), calls |-> calls + 1]

(* ------------------------------- Init --------------------------------- *)

Init ==
    /\ messages = <<greeting>>
    /\ input = <<>>
    /\ isLoading = FALSE
    /\ chat = NULL
    /\ mounted = FALSE
    /\ pc = "idle"
    /\ currentInput = <<>>
    /\ prompt = <<>>
    /\ fullResponse = <<>>
    /\ imageRequests = <<>>
    /\ textRequests = <<>>
    /\ delivered = <<>>
    /\ response = <<>>
    /\ start = [msgs |-> 1, img |-> 0, txt |-> 0, calls |-> 0]
    /\ settled = "none"
    /\ pending = 0
    /\ open = {}
    /\ calls = 0

(* ------------------------------ actions ------------------------------- *)

\* the mount effect, lines 29-38
MountEffect ==
    /\ ~mounted
    /\ mounted' = TRUE
    /\ chat' = IF chat = NULL THEN Session ELSE chat
    /\ UNCHANGED <<messages, input, isLoading, pc, locals, backend, start,
                   settled, pending, open, calls>>

\* onChange of the text field, line 145
OnChange(v) ==
    /\ ~InputDisabled(isLoading)
    /\ Len(messages) < MaxMessages
    /\ input' = v
    /\ UNCHANGED <<messages, isLoading, chat, mounted, pc, locals, backend,
                   start, settled, pending, open, calls>>

\* handleSendMessage returning at line 48
SubmitRejected ==
    /\ calls < MaxCalls
    /\ ~Accepts(input, isLoading)
    /\ calls' = calls + 1
    /\ UNCHANGED <<messages, input, isLoading, chat, mounted, pc, locals,
                   backend, start, settled, pending, open>>

\* handleSendMessage up to the await of line 69
SubmitImage ==
    /\ calls < MaxCalls
    /\ Accepts(input, isLoading)
    /\ ExtractPrompt(input) # <<>>
    /\ calls' = calls + 1
    /\ messages' = Append(messages, userMessage(input))
    /\ currentInput' = input
    /\ input' = <<>>
    /\ isLoading' = LoadingOnAccept
    /\ prompt' = ExtractPrompt(input)
    /\ imageRequests' = Append(imageRequests, WrapPrompt(ExtractPrompt(input)))
    /\ pc' = "awaitImage"
    /\ start' = StartOf(messages)
    /\ settled' = "none"
    /\ pending' = pending + 1
    /\ UNCHANGED <<chat, mounted, fullResponse, textRequests, delivered,
                   response, open>>

\* handleSendMessage up to the await of line 87
SubmitChat ==
    /\ calls < MaxCalls
    /\ Accepts(input, isLoading)
    /\ ExtractPrompt(input) = <<>>
    /\ chat # NULL
    /\ calls' = calls + 1
    /\ messages' = Append(messages, userMessage(input))
    /\ currentInput' = input
    /\ input' = <<>>
    /\ isLoading' = LoadingOnAccept
    /\ prompt' = <<>>
    /\ textRequests' = Append(textRequests, [message |-> input, handle |-> StreamTarget(chat)])
    /\ delivered' = <<>>
    /\ pc' = "awaitStream"
    /\ start' = StartOf(messages)
    /\ settled' = "none"
    /\ pending' = pending + 1
    /\ UNCHANGED <<chat, mounted, fullResponse, imageRequests, response, open>>

\* handleSendMessage throwing at line 85: catch and finally run in the same turn
SubmitNoSession ==
    /\ calls < MaxCalls
    /\ Accepts(input, isLoading)
    /\ ExtractPrompt(input) = <<>>
    /\ chat = NULL
    /\ calls' = calls + 1
    /\ messages' = CatchError(Append(messages, userMessage(input)))
    /\ currentInput' = input
    /\ input' = <<>>
    /\ isLoading' = LoadingOnFinally
    /\ prompt' = <<>>
    /\ delivered' = <<>>
    /\ start' = StartOf(messages)
    /\ settled' = "failure"
    /\ UNCHANGED <<chat, mounted, pc, fullResponse, imageRequests,
                   textRequests, response, pending, open>>

\* generateImages resolves with an image, lines 75-82 and finally
ImageResolve(base64ImageBytes) ==
    /\ pc = "awaitImage"
    /\ response' = base64ImageBytes
    /\ messages' = Append(messages, aiMessage(prompt, base64ImageBytes))
    /\ isLoading' = LoadingOnFinally
    /\ pc' = "idle"
    /\ settled' = "success"
    /\ pending' = pending - 1
    /\ UNCHANGED <<input, chat, mounted, locals, imageRequests, textRequests,
                   delivered, start, open, calls>>

\* mutant: a failed image request is issued once more instead of being caught
ImageFail_Retry(how) ==
    /\ pc = "awaitImage"
    /\ how \in ImageFailures
    /\ Len(imageRequests) < start.img + 2
    /\ imageRequests' = Append(imageRequests, WrapPrompt(prompt))
    /\ UNCHANGED <<messages, input, isLoading, chat, mounted, pc, locals,
                   textRequests, delivered, response, start, settled, pending,
                   open, calls>>

\* generateImages rejects, or line 75 throws on a response without images
ImageFail(how) ==
    /\ pc = "awaitImage"
    /\ how \in ImageFailures
    /\ messages' = CatchError(messages)
    /\ isLoading' = LoadingOnFinally
    /\ pc' = "idle"
    /\ settled' = "failure"
    /\ pending' = pending - 1
    /\ UNCHANGED <<input, chat, mounted, locals, backend, start, open, calls>>

\* sendMessageStream resolves: lines 89-91, then the loop waits for a chunk
StreamOpen ==
    /\ pc = "awaitStream"
    /\ messages' = Append(messages, placeholder)
    /\ fullResponse' = <<>>
    /\ open' = open \cup {Len(messages) + 1}
    /\ pc' = "streaming"
    /\ UNCHANGED <<input, isLoading, chat, mounted, currentInput, prompt,
                   backend, start, settled, pending, calls>>

\* sendMessageStream rejects
StreamReject ==
    /\ pc = "awaitStream"
    /\ messages' = CatchError(messages)
    /\ isLoading' = LoadingOnFinally
    /\ pc' = "idle"
    /\ settled' = "failure"
    /\ pending' = pending - 1
    /\ UNCHANGED <<input, chat, mounted, locals, backend, start, open, calls>>

\* one iteration of the loop of lines 92-99
StreamChunk(chunk) ==
    /\ pc = "streaming"
    /\ Len(delivered) < MaxFrags
    /\ delivered' = Append(delivered, chunk)
    /\ fullResponse' = AppendChunk(fullResponse, chunk)
    /\ messages' = SetLastText(messages, AppendChunk(fullResponse, chunk))
    /\ UNCHANGED <<input, isLoading, chat, mounted, pc, currentInput, prompt,
                   imageRequests, textRequests, response, start, settled,
                   pending, open, calls>>

\* the stream is exhausted: the loop ends and finally runs
StreamDone ==
    /\ pc = "streaming"
    /\ isLoading' = LoadingOnFinally
    /\ open' = open \ {Len(messages)}
    /\ pc' = "idle"
    /\ settled' = "success"
    /\ pending' = pending - 1
    /\ UNCHANGED <<messages, input, chat, mounted, locals, backend, start, calls>>

\* the stream throws while the loop waits for a chunk
StreamFail ==
    /\ pc = "streaming"
    /\ messages' = CatchError(messages)
    /\ isLoading' = LoadingOnFinally
    /\ open' = open \ {Len(messages)}
    /\ pc' = "idle"
    /\ settled' = "failure"
    /\ pending' = pending - 1
    /\ UNCHANGED <<input, chat, mounted, locals, backend, start, calls>>

BackendAnswers ==
    \/ \E b \in ImageBytes : ImageResolve(b)
    \/ \E how \in ImageFailures : ImageFail(how)
    \/ StreamOpen
    \/ StreamReject
    \/ StreamDone
    \/ StreamFail

Next ==
    \/ MountEffect
    \/ \E v \in InputSet : OnChange(v)
    \/ SubmitRejected
    \/ SubmitImage
    \/ SubmitChat
    \/ SubmitNoSession
    \/ \E b \in ImageBytes : ImageResolve(b)
    \/ \E how \in ImageFailures : ImageFail(how)
    \/ StreamOpen
    \/ StreamReject
    \/ \E chunk \in Fragments : StreamChunk(chunk)
    \/ StreamDone
    \/ StreamFail

Spec == Init /\ [][Next]_vars

\* the backend eventually answers every request and every stream ends
LiveSpec == Spec /\ WF_vars(BackendAnswers)

\* the component once its mount effect has run: the state every submit event
\* of a mounted page starts from
MountedInit ==
    /\ messages = <<greeting>>
    /\ input = <<>>
    /\ isLoading = FALSE
    /\ chat = Session
    /\ mounted = TRUE
    /\ pc = "idle"
    /\ currentInput = <<>>
    /\ prompt = <<>>
    /\ fullResponse = <<>>
    /\ imageRequests = <<>>
    /\ textRequests = <<>>
    /\ delivered = <<>>
    /\ response = <<>>
    /\ start = [msgs |-> 1, img |-> 0, txt |-> 0, calls |-> 0]
    /\ settled = "none"
    /\ pending = 0
    /\ open = {}
    /\ calls = 0

MountedNext ==
    \/ \E v \in InputSet : OnChange(v)
    \/ SubmitRejected
    \/ SubmitImage
    \/ SubmitChat
    \/ \E b \in ImageBytes : ImageResolve(b)
    \/ \E how \in ImageFailures : ImageFail(how)
    \/ StreamOpen
    \/ StreamReject
    \/ \E chunk \in Fragments : StreamChunk(chunk)
    \/ StreamDone
    \/ StreamFail

MountedSpec == MountedInit /\ [][MountedNext]_vars

TypeOK ==
    /\ isLoading \in BOOLEAN
    /\ pc \in {"idle", "awaitImage", "awaitStream", "streaming"}
    /\ settled \in {"none", "success", "failure"}
    /\ chat \in {NULL, Session}
    /\ \A i \in 1..Len(messages) : messages[i].sender \in {"user", "ai"}

(* ------------------------ vocabulary of the claims -------------------- *)

\* the input starts, case-insensitively, with one of the two command heads
MatchesImageCommand(s) ==
    \/ startsWith(toLowerCase(s), imageCommand)
    \/ startsWith(toLowerCase(s), imageCommandAlt)

\* what follows the matched head in the input as typed
Remainder(s) ==
    IF startsWith(toLowerCase(s), imageCommand)
    THEN SubSeq(s, Len(imageCommand) + 1, Len(s))
    ELSE SubSeq(s, Len(imageCommandAlt) + 1, Len(s))

\* the Messages appended since the last acceptance
Appended == SubSeq(messages, start.msgs + 1, Len(messages))

CountSender(ms, who) == Cardinality({i \in 1..Len(ms) : ms[i].sender = who})

\* some submission has been accepted
Accepted == start.calls > 0

\* the last accepted submission appended one user Message and one assistant
\* Message, the latter holding all delivered fragments in delivery order
OneTurnHoldingStream ==
    /\ Len(Appended) = 2
    /\ CountSender(Appended, "user") = 1
    /\ CountSender(Appended, "ai") = 1
    /\ Appended[1] = userMessage(currentInput)
    /\ Appended[2].sender = "ai"
    /\ Appended[2].text = Concat(delivered)

(* -------------------------------- C1 ---------------------------------- *)

\* C1 as stated: every settled submission whose input does not match an
\* image command has appended exactly one user Message and exactly one
\* assistant Message whose text is the concatenation of the delivered
\* fragments in delivery order.
C1_AsStated ==
    (Accepted /\ settled # "none" /\ ~MatchesImageCommand(currentInput))
        => OneTurnHoldingStream

\* C1 amended: every submission that does not match an image command and
\* whose text request and stream end without failure has appended exactly
\* one user Message and exactly one assistant Message whose text is the
\* concatenation of the delivered fragments in delivery order.
C1_StreamedTurn ==
    (Accepted /\ settled = "success" /\ ~MatchesImageCommand(currentInput))
        => OneTurnHoldingStream

C1_Witness ==
    /\ settled = "success"
    /\ ~MatchesImageCommand(currentInput)
    /\ Len(delivered) = 2
    /\ delivered[1] # delivered[2]
    /\ Last(messages).text = delivered[1] \o delivered[2]

(* -------------------------------- C2 ---------------------------------- *)

\* exactly one request was issued since the last acceptance, an image
\* request carrying the remainder of the input as typed
OneImageRequestForRemainder ==
    /\ Len(imageRequests) = start.img + 1
    /\ Len(textRequests) = start.txt
    /\ Last(imageRequests) = PromptHead \o Remainder(currentInput) \o PromptTail

ImageUrlHoldsResponse ==
    settled = "success" =>
        Last(messages).imageUrl = <<DataUriPrefix \o response>>

\* C2 as stated: every accepted input that matches an image command issues
\* exactly one image request with the remainder as typed, and on success the
\* appended Message's imageUrl is the data-URI head followed by the bytes.
C2_AsStated ==
    (Accepted /\ MatchesImageCommand(currentInput))
        => (OneImageRequestForRemainder /\ ImageUrlHoldsResponse)

\* C2 amended: every accepted input that matches an image command and has a
\* non-empty remainder issues exactly one image request, whose prompt is the
\* fixed template around the remainder as typed, and on success the appended
\* Message's imageUrl is the data-URI head followed by the returned bytes.
C2_ImageRequest ==
    (Accepted /\ MatchesImageCommand(currentInput)
              /\ Remainder(currentInput) # <<>>)
        => (OneImageRequestForRemainder /\ ImageUrlHoldsResponse)

C2_Witness ==
    /\ settled = "success"
    /\ currentInput = TypedMixedCase \o <<"A">>
    /\ Last(imageRequests) = PromptHead \o <<"A">> \o PromptTail
    /\ Last(messages).imageUrl = <<DataUriPrefix \o <<"k", "0">>>>

(* -------------------------------- C3 ---------------------------------- *)

\* C3: the flag is raised exactly while an accepted submission has not
\* settled, that is while its handler is suspended on the backend.
C3_LoadingIffPending ==
    /\ isLoading <=> pending > 0
    /\ isLoading <=> pc # "idle"

C3_Witness ==
    /\ isLoading
    /\ pc = "streaming"
    /\ delivered # <<>>
    /\ start.msgs > 1

(* -------------------------------- C4 ---------------------------------- *)

\* C4: at most one accepted submission is unsettled at any time, it has
\* issued at most one backend request, and a submit event dispatched while
\* one is unsettled starts nothing: no request, no Message, no new handler.
C4_SinglePending ==
    /\ [](pending <= 1)
    /\ []((Len(imageRequests) - start.img) + (Len(textRequests) - start.txt) <= 1)
    /\ [][(calls' # calls /\ pending > 0)
            => UNCHANGED <<imageRequests, textRequests, pending, pc, messages>>]_vars

\* a submit event arrived, and was turned away, after the acceptance of a
\* submission whose request is still unanswered
C4_Witness ==
    /\ pending = 1
    /\ pc \in {"awaitImage", "awaitStream"}
    /\ calls > start.calls

(* -------------------------------- C5 ---------------------------------- *)

\* C5: a submit event dispatched with an empty or whitespace-only draft, or
\* while the flag is raised, changes neither the transcript nor the request
\* logs nor the flag nor the draft.
C5_BlockedSubmitIsNoOp ==
    [][(calls' # calls /\ (trim(input) = <<>> \/ isLoading))
          => UNCHANGED <<messages, imageRequests, textRequests, isLoading, input>>]_vars

\* only rejected events so far, the last draft typed being whitespace only
C5_Witness ==
    /\ calls > 0
    /\ ~Accepted
    /\ input # <<>>
    /\ trim(input) = <<>>
    /\ messages = <<greeting>>

(* -------------------------------- C6 ---------------------------------- *)

C7_EventuallySettles ==
    (pending > 0) ~> (settled # "none" /\ ~isLoading /\ pc = "idle")

\* an image submission that went from acceptance to a successful settlement
C7_Witness ==
    /\ settled = "success"
    /\ prompt # <<>>
    /\ ~isLoading
    /\ pc = "idle"
    /\ pending = 0

(* -------------------------------- C8 ---------------------------------- *)

\* C8: no step shortens the transcript, and every Message already in it
\* keeps its sender, text and imageUrl, except that while a stream is being
\* consumed the text of the final Message may be extended.
C8_AppendOnly ==
    [][/\ Len(messages') >= Len(messages)
       /\ \A i \in 1..Len(messages) :
            \/ messages'[i] = messages[i]
            \/ /\ i = Len(messages)
               /\ pc = "streaming"
               /\ messages'[i].sender = messages[i].sender
               /\ messages'[i].imageUrl = messages[i].imageUrl
               /\ IsPrefix(messages[i].text, messages'[i].text)]_vars

\* a placeholder that has grown twice, behind an earlier turn
C8_Witness ==
    /\ pc = "streaming"
    /\ Len(delivered) = 2
    /\ Last(messages).text = Concat(delivered)
    /\ start.msgs >= 3

(* -------------------------------- C9 ---------------------------------- *)

\* C9: at most one placeholder is being filled at any time, it is the final
\* assistant Message of the transcript, and none is being filled while the
\* flag is down.
C9_OnePendingMessage ==
    /\ Cardinality(open) <= 1
    /\ \A i \in open : i = Len(messages) /\ messages[i].sender = "ai"
    /\ ~isLoading => open = {}

\* a fresh placeholder being filled while an earlier stream's placeholder
\* stays empty for good
C9_Witness ==
    /\ open = {Len(messages)}
    /\ isLoading
    /\ Last(messages) = placeholder
    /\ \E i \in 1..(Len(messages) - 1) : messages[i] = placeholder

(* -------------------------------- C10 --------------------------------- *)

\* C10: a successful image submission has appended exactly the user Message
\* and one assistant Message with the confirmation text and an imageUrl, and
\* an image submission never appends an empty placeholder.
C10_ImageTurn ==
    /\ (Accepted /\ prompt # <<>> /\ settled = "success") =>
          /\ Len(Appended) = 2
          /\ Appended[1] = userMessage(currentInput)
          /\ Appended[2].sender = "ai"
          /\ Appended[2].text = ConfirmHead \o Remainder(currentInput) \o ConfirmTail
          /\ Appended[2].imageUrl # <<>>
    /\ (Accepted /\ prompt # <<>>) =>
          \A i \in 1..Len(Appended) : Appended[i].text # <<>>

\* the second form of the command, settled with an image
C10_Witness ==
    /\ settled = "success"
    /\ currentInput = imageCommandAlt \o <<"A">>
    /\ Len(messages) = start.msgs + 2
    /\ Last(messages).imageUrl # <<>>

(* -------------------------------- C11 --------------------------------- *)

\* C11: once chat.current holds a handle no step replaces or clears it, and
\* every text request so far was sent through the handle it holds.
C11_OneSession ==
    /\ [][chat # NULL => chat' = chat]_vars
    /\ [](\A i \in 1..Len(textRequests) :
            chat # NULL /\ textRequests[i].handle = chat)

\* two conversational turns sent through the one handle
C11_Witness ==
    /\ Len(textRequests) = 2
    /\ textRequests[1].handle = chat
    /\ textRequests[2].handle = chat
    /\ chat = Session

(* -------------------------------- C12 --------------------------------- *)

RequestsIssued == Len(imageRequests) + Len(textRequests)

RequestsSinceStart ==
    (Len(imageRequests) - start.img) + (Len(textRequests) - start.txt)

\* C12: a request is issued only by the step that accepts a submission, one
\* request per acceptance, so a submission has at most one request, image or
\* text, and none is added once it has failed.
C12_NoRetry ==
    /\ [][RequestsIssued' # RequestsIssued
            => /\ calls' = calls + 1
               /\ start'.calls = calls'
               /\ RequestsIssued' = RequestsIssued + 1
               /\ \/ imageRequests' = imageRequests
                  \/ textRequests' = textRequests]_vars
    /\ [](settled = "failure" => RequestsSinceStart <= 1)

\* a failed image request, and a later submit event that issued nothing
C12_Witness ==
    /\ settled = "failure"
    /\ prompt # <<>>
    /\ RequestsSinceStart = 1
    /\ calls > start.calls

(* -------------------------------- C13 --------------------------------- *)

\* C13: while a stream is consumed the placeholder holds the concatenation
\* of the fragments delivered so far, in delivery order, and the step that
\* takes a fragment extends the placeholder's text by exactly that fragment.
C13_TextFollowsFragments ==
    /\ [](pc = "streaming" =>
            /\ Len(messages) = start.msgs + 2
            /\ messages[start.msgs + 2].sender = "ai"
            /\ messages[start.msgs + 2].text = Concat(delivered))
    /\ [][(pc = "streaming" /\ Len(delivered') = Len(delivered) + 1)
            => messages'[start.msgs + 2].text
                 = messages[start.msgs + 2].text \o Last(delivered')]_vars

\* the first of several fragments has been processed
C13_Witness ==
    /\ pc = "streaming"
    /\ Len(delivered) = 1
    /\ Last(messages).text = delivered[1]
    /\ Last(messages).text # <<>>

(* -------------------------------- C14 --------------------------------- *)

\* what a stream that failed after its fragments leaves behind: the user
\* Message, the assistant Message with the fragments, the apology
TurnOfFailedStream ==
    <<[text |-> currentInput, sender |-> "user", imageUrl |-> <<>>],
      [text |-> Concat(delivered), sender |-> "ai", imageUrl |-> <<>>],
      [text |-> ErrorText, sender |-> "ai", imageUrl |-> <<>>]>>

\* C14: the step in which a stream being consumed fails keeps the user
\* Message and the text streamed so far and puts the apology after them, and
\* the three Messages stay as they are once the submission has settled.
C14_PartialTextKept ==
    /\ [][(pc = "streaming" /\ settled' = "failure")
            => /\ Len(messages') = Len(messages) + 1
               /\ SubSeq(messages', 1, Len(messages)) = messages
               /\ Appended' = TurnOfFailedStream
               /\ delivered' = delivered]_vars
    /\ []((settled = "failure" /\ Len(Appended) = 3)
            => Appended = TurnOfFailedStream)

\* a stream that failed after two fragments
C14_Witness ==
    /\ settled = "failure"
    /\ Len(delivered) = 2
    /\ Appended = TurnOfFailedStream
    /\ ~isLoading

(* -------------------------------- C15 --------------------------------- *)

UserMessageOf(text) == [text |-> text, sender |-> "user", imageUrl |-> <<>>]

\* C15: the step that accepts a submission puts its user Message, with the
\* draft as typed, right after the transcript it found; whatever happens
\* next, that Message stays first among the Messages of the submission and
\* only assistant Messages follow it.
C15_UserMessageFirst ==
    /\ [][(calls' = calls + 1 /\ trim(input) # <<>> /\ ~isLoading)
            => /\ Len(messages') > Len(messages)
               /\ SubSeq(messages', 1, Len(messages)) = messages
               /\ messages'[Len(messages) + 1] = UserMessageOf(input)
               /\ start'.msgs = Len(messages)]_vars
    /\ [](Accepted =>
            /\ Len(Appended) >= 1
            /\ Appended[1] = UserMessageOf(currentInput)
            /\ \A i \in 2..Len(Appended) : Appended[i].sender = "ai")
    /\ [](RequestsSinceStart > 0 => (Accepted /\ Len(Appended) >= 1))

\* a draft with a trailing blank, kept as typed after its request failed
C15_Witness ==
    /\ settled = "failure"
    /\ currentInput # trim(currentInput)
    /\ Appended[1] = UserMessageOf(currentInput)
    /\ Len(Appended) >= 2
    /\ RequestsSinceStart = 1

(* -------------------------------- C16 --------------------------------- *)

\* the draft would be accepted and carries no image prompt
ConversationalDraft ==
    /\ trim(input) # <<>>
    /\ ~isLoading
    /\ ~(MatchesImageCommand(input) /\ Remainder(input) # <<>>)

\* C16: a conversational submission made while chat.current is null issues
\* no request and appends no placeholder: in the one step the transcript
\* gains the user Message and the apology, and the flag is down.
C16_NoSessionFails ==
    [][(calls' = calls + 1 /\ ConversationalDraft /\ chat = NULL)
         => /\ textRequests' = textRequests
            /\ imageRequests' = imageRequests
            /\ messages' = messages \o
                 <<UserMessageOf(input),
                   [text |-> ErrorText, sender |-> "ai", imageUrl |-> <<>>]>>
            /\ settled' = "failure"
            /\ ~isLoading'
            /\ pc' = "idle"
            /\ open' = open]_vars

\* a turn submitted before the mount effect, settled with the apology
C16_Witness ==
    /\ chat = NULL
    /\ settled = "failure"
    /\ RequestsIssued = 0
    /\ Len(messages) = 3
    /\ Last(messages).text = ErrorText
    /\ ~isLoading

(* -------------------------------- C17 --------------------------------- *)

EmptyAssistantMessage == [text |-> <<>>, sender |-> "ai", imageUrl |-> <<>>]

\* C17: a stream that ends without a fragment settles as a success: the
\* submission has appended its user Message and an empty assistant Message
\* and no apology, the flag is down, and an empty assistant Message whose
\* stream is over is never changed by a later step.
C17_EmptyStreamStaysEmpty ==
    /\ []((Accepted /\ settled = "success" /\ prompt = <<>> /\ delivered = <<>>)
            => /\ Appended = <<UserMessageOf(currentInput), EmptyAssistantMessage>>
               /\ ~isLoading)
    /\ [][\A i \in 1..Len(messages) :
            (messages[i] = EmptyAssistantMessage /\ i \notin open)
                => (Len(messages') >= i /\ messages'[i] = messages[i])]_vars

\* the empty Message of a first turn, still empty while a second turn streams
C17_Witness ==
    /\ Len(messages) = 5
    /\ messages[3] = EmptyAssistantMessage
    /\ pc = "streaming"
    /\ delivered # <<>>
    /\ messages[5].text = Concat(delivered)

(* -------------------------------- C18 --------------------------------- *)

\* the last accepted submission issued an image request and no text request
ImagePathTaken ==
    /\ Len(imageRequests) = start.img + 1
    /\ Len(textRequests) = start.txt

\* the last accepted submission issued a text request and no image request
ChatPathTaken ==
    /\ Len(textRequests) = start.txt + 1
    /\ Len(imageRequests) = start.img

\* C18 as stated: an accepted submission takes the image path exactly when
\* its lower-cased input starts with one of the two command heads, and the
\* conversational path otherwise.
C18_AsStated ==
    Accepted =>
        IF MatchesImageCommand(currentInput) THEN ImagePathTaken ELSE ChatPathTaken

\* C18 amended: an accepted submission takes the image path exactly when its
\* lower-cased input starts with one of the two command heads and something
\* follows the head, and the conversational path otherwise; an input with
\* whitespace before the head takes the conversational path.
C18_Routing ==
    /\ Accepted =>
         IF MatchesImageCommand(currentInput) /\ Remainder(currentInput) # <<>>
         THEN ImagePathTaken
         ELSE ChatPathTaken
    /\ (Accepted /\ Head(currentInput) \in Whitespace) => ChatPathTaken

\* a command typed after a blank, answered by the text stream
C18_Witness ==
    /\ currentInput = <<" ">> \o imageCommand \o <<"A">>
    /\ ChatPathTaken
    /\ settled = "success"
    /\ delivered # <<>>

(* -------------------------------- C19 --------------------------------- *)

\* C19: a step changes a Message already in the transcript only while a
\* stream is consumed, and then the Message is the placeholder of the
\* submission in progress: the last one, second of the submission, from the
\* assistant, holding the fragments so far; user Messages, the apology and
\* the Messages of earlier submissions are never written.
C19_WritesHitPlaceholder ==
    [][\A i \in 1..Len(messages) :
         (Len(messages') < i \/ messages'[i] # messages[i])
            => /\ pc = "streaming"
               /\ isLoading
               /\ i = start.msgs + 2
               /\ i = Len(messages)
               /\ i \in open
               /\ messages[i].sender = "ai"
               /\ messages[i].text = Concat(delivered)
               /\ Len(messages') = Len(messages)
               /\ messages'[i].sender = "ai"]_vars

\* a fragment written behind a user Message and the apology of a first turn
C19_Witness ==
    /\ pc = "streaming"
    /\ start.msgs = 3
    /\ messages[2].sender = "user"
    /\ messages[3].text = ErrorText
    /\ messages[4].sender = "user"
    /\ delivered # <<>>
    /\ messages[5].text = Concat(delivered)

(* -------------------------------- C20 --------------------------------- *)

\* how many assistant Messages follow Message i without a break
AssistantRunAfter(i) ==
    Cardinality({k \in 1..(Len(messages) - i) :
                    \A j \in 1..k : messages[i + j].sender = "ai"})

\* C20: whenever the flag is down the transcript ends with an assistant
\* Message, and every user Message is followed, before the next user
\* Message, by one or two assistant Messages, two only when the first is a
\* stream's placeholder and the second the apology.
C20_TurnsAlternate ==
    ~isLoading =>
        /\ Last(messages).sender = "ai"
        /\ \A i \in 1..Len(messages) :
             messages[i].sender = "user" =>
                /\ AssistantRunAfter(i) \in {1, 2}
                /\ AssistantRunAfter(i) = 2 =>
                     /\ messages[i + 1].imageUrl = <<>>
                     /\ messages[i + 2] =
                          [text |-> ErrorText, sender |-> "ai", imageUrl |-> <<>>]

\* a turn answered by one Message, then a turn whose stream failed
C20_Witness ==
    /\ ~isLoading
    /\ Len(messages) = 6
    /\ messages[2].sender = "user"
    /\ AssistantRunAfter(2) = 1
    /\ messages[4].sender = "user"
    /\ AssistantRunAfter(4) = 2

====
